---- MODULE Spec2Model ----
(***************************************************************************)
(* Outbound selection and provider synchronisation of sing-box:            *)
(*   - group.Selector        (src/unnamed/part_000)                        *)
(*   - provider.ProviderLocal (src/provider/local/lcoal.go)                *)
(*   - adapter.Provider / adapter.ProviderManager (src/adapter/provider.go)*)
(* One Selector, the providers registered in the provider manager, the     *)
(* outbound manager and the persisted-selection store.                     *)
(***************************************************************************)
EXTENDS Integers, Sequences, FiniteSets, TLC

\* ------------------------------------------------------------------ bounds
\* Identities 0..MaxGen are available to the instances of an entry whose
\* configuration changes between reloads.
MaxGen == 1
\* Callbacks of one provider that may be waiting to call UpdateGroups when
\* its next callback acquires the flag.
MaxPending == 1

\* ---------------------------------------------------------------- universe
\* An outbound instance: its tag and the identity of the instance
\* (interface values compare by instance in Selector.SelectOutbound).
Nil == [tag |-> "", id |-> -1]

Compatible == "Compatible"

\* Static outbounds registered in the outbound manager at start-up.
StaticTags == {"A", "G"}

\* Providers registered in the provider manager, in Providers() order, and
\* the tags each provider's file may define.
ManagerProviders == <<"P", "Q">>

ProviderUniverse(p) == IF p = "P" THEN {"p1", "p2"} ELSE IF p = "Q" THEN {"q1"} ELSE {}

\* Every provider tag a configuration may name ("X" is registered nowhere).
ProviderNames == {"P", "Q", "X"}

NilProvider == "<nil>"

Range(s) == {s[i] : i \in 1..Len(s)}

\* A compiled *regexp.Regexp, or nil: the set of tags it matches.
NilRegexp == [nil |-> TRUE, matches |-> {}]

Regexp(m) == [nil |-> FALSE, matches |-> m]

MatchString(re, tag) == tag \in re.matches

\* adapter.OutboundGroup: "G" is itself a group whose effective member is "g1".
IsGroup(detour) == detour.tag = "G"

GroupNow(detour) == "g1"

\* option.SelectorOutboundOptions (plus whether a cache file service exists).
BaseOptions ==
  [Outbounds |-> <<"A", "G">>, Default |-> "", Tag |-> "sel",
   Providers |-> <<"P", "Q">>, UseAllProviders |-> FALSE,
   Include |-> NilRegexp, Exclude |-> NilRegexp, CacheFile |-> TRUE]

Options ==
  {BaseOptions,
   [BaseOptions EXCEPT !.Default = "G"],
   [BaseOptions EXCEPT !.Tag = ""],
   [BaseOptions EXCEPT !.CacheFile = FALSE],
   [BaseOptions EXCEPT !.Providers = <<"P">>],
   [BaseOptions EXCEPT !.Providers = <<>>, !.UseAllProviders = TRUE],
   [BaseOptions EXCEPT !.Providers = <<"P", "X">>],
   [BaseOptions EXCEPT !.Outbounds = <<>>, !.Providers = <<>>],
   [BaseOptions EXCEPT !.Outbounds = <<>>, !.Default = "G"]}
  \cup
  {[BaseOptions EXCEPT !.Outbounds = <<>>, !.Include = i, !.Exclude = e] :
      i \in {NilRegexp, Regexp({"p1", "p2"})},
      e \in {NilRegexp, Regexp({"p1"})}}

\* The configurations run with both watchers started.
OptionsBoth == {BaseOptions, [BaseOptions EXCEPT !.Providers = <<"P">>]}

VARIABLES
  options,          \* the configuration the Selector is built from
  state,            \* "new" (constructed), "running", "failed" (Start error), "crashed"
  tags,             \* Selector.tags
  outbounds,        \* Selector.outbounds: tag -> outbound
  outboundsCache,   \* Selector.outboundsCache: provider tag -> outbounds (<<>> is nil)
  providers,        \* Selector.providers: provider tag -> provider or nil
  providerTags,     \* Selector.providerTags
  selected,         \* Selector.selected (Nil before Start)
  cacheFile,        \* Selector.cacheFile # nil
  store,            \* persisted selection stored under the Selector's tag ("" none)
  managerOutbounds, \* tags the outbound manager resolves
  provOutbounds,    \* provider -> its current outbound list
  updating,         \* ProviderLocal.updating
  reloading,        \* provider -> callbacks inside reloadFile
  deferred,         \* provider -> callbacks about to run the deferred function
  notifying,        \* provider -> callbacks about to call UpdateGroups
  watching,         \* providers whose file watcher started
  local,            \* provider -> what filterOutbounds returned to the
                    \* UpdateOutbounds call its callback is inside (NoLocal: none)
  conns,            \* the DialContext calls in flight and the connections
                    \* registered with the interrupt group and still open
  last              \* what the most recent operation did

selectorVars == <<options, state, tags, outbounds, outboundsCache, providers,
                  providerTags, selected, cacheFile>>

providerVars == <<provOutbounds, updating, reloading, deferred, notifying, watching,
                  local>>

vars == <<selectorVars, providerVars, store, managerOutbounds, conns, last>>

EmptyMap == [t \in {} |-> Nil]

\* No UpdateOutbounds call of the provider's callback is between its
\* filterOutbounds call and the assignments of the result.
NoLocal == [err |-> FALSE, panic |-> FALSE, tags |-> <<>>, outboundByTag |-> EmptyMap,
            cache |-> EmptyMap, fetched |-> {"<none>"}]

\* No DialContext call in flight and no connection open.  A call in flight
\* and a connection are the member the call loaded, and `stale`: the active
\* selection was swapped after the load.
NoConns == [dialing |-> {}, open |-> {}]

\* The record every operation leaves in `last`.
\* op/arg/ret: the call and how it ended.  wrote: it wrote the store.
\* interrupted: it signalled the interrupt group.
\* twice: the call before it was the same successful SelectOutbound call,
\* and prevWrote: that call wrote the store.
\* rebuilt: its filterOutbounds call returned without an error.
NoOp == [op |-> "", arg |-> "", ret |-> "", wrote |-> FALSE, interrupted |-> FALSE,
         twice |-> FALSE, prevWrote |-> FALSE, rebuilt |-> FALSE]

Op(name, arg, ret) == [NoOp EXCEPT !.op = name, !.arg = arg, !.ret = ret]

\* ---------------------------------------------------------------- managers
\* OutboundManager.Outbound(tag)
Outbound(tag) == IF tag \in managerOutbounds THEN [tag |-> tag, id |-> 0] ELSE Nil

\* ProviderManager.Provider(tag)
Provider(tag) == IF tag \in Range(ManagerProviders) THEN tag ELSE NilProvider

\* Provider.IsUpdating()
IsUpdating(p) == updating[p]

\* ---------------------------------------------------------------- Selector
\* Mutant of Admitted: the exclude pattern is tested only when no include
\* pattern is set.
AdmittedElseIf(include, exclude, detour) ==
  IF ~include.nil THEN MatchString(include, detour.tag)
  ELSE ~(~exclude.nil /\ MatchString(exclude, detour.tag))

\* The include/exclude test of one provider outbound (part_000:273-278).
Admitted(include, exclude, detour) ==
  /\ ~(~include.nil /\ ~MatchString(include, detour.tag))
  /\ ~(~exclude.nil /\ MatchString(exclude, detour.tag))

RECURSIVE FilterProvider(_, _, _)
\* The loop over provider.Outbounds(): the outbounds appended to the cache.
FilterProvider(list, include, exclude) ==
  IF list = <<>> THEN <<>>
  ELSE IF Admitted(include, exclude, Head(list))
       THEN <<Head(list)>> \o FilterProvider(Tail(list), include, exclude)
       ELSE FilterProvider(Tail(list), include, exclude)

RECURSIVE TagsOf(_)
TagsOf(list) == IF list = <<>> THEN <<>> ELSE <<Head(list).tag>> \o TagsOf(Tail(list))

RECURSIVE PutAll(_, _)
\* outboundByTag[detour.Tag()] = detour for each detour of list, in order:
\* a later entry overwrites an earlier one with the same tag.
PutAll(m, list) ==
  IF list = <<>> THEN m
  ELSE PutAll((Head(list).tag :> Head(list)) @@ m, Tail(list))

\* Whether the cached list of providerTag is reused instead of fetched.
CacheHit(providerTag, tag, cache) == providerTag # tag /\ cache[providerTag] # <<>>

RECURSIVE ProviderLoop(_, _, _, _, _)
\* The loop over s.providerTags of filterOutbounds, from index i on.
\* acc: the tags, map and cache built so far, the providers fetched, and
\* whether a nil provider was dereferenced.
ProviderLoop(i, tag, pTags, provs, acc) ==
  IF i > Len(pTags) \/ acc.panic THEN acc
  ELSE LET providerTag == pTags[i] IN
    IF CacheHit(providerTag, tag, acc.cache)
    THEN ProviderLoop(i + 1, tag, pTags, provs,
           [acc EXCEPT !.tags = @ \o TagsOf(acc.cache[providerTag]),
                       !.outboundByTag = PutAll(@, acc.cache[providerTag])])
    ELSE IF provs[providerTag] = NilProvider
    THEN [acc EXCEPT !.panic = TRUE]
    ELSE LET cache == FilterProvider(provOutbounds[provs[providerTag]],
                                     options.Include, options.Exclude)
         IN ProviderLoop(i + 1, tag, pTags, provs,
              [acc EXCEPT !.tags = @ \o TagsOf(cache),
                          !.outboundByTag = PutAll(@, cache),
                          !.cache = [@ EXCEPT ![providerTag] = cache],
                          !.fetched = @ \cup {providerTag}])

\* Selector.filterOutbounds(tag), run with the given provider bindings on
\* the current cache.  err: an error is returned (tags and map nil).
\* panic: a nil provider is dereferenced.
filterOutbounds(tag, pTags, provs) ==
  LET deps == options.Outbounds
      failed == [err |-> TRUE, panic |-> FALSE, tags |-> <<>>, outboundByTag |-> EmptyMap,
                 cache |-> outboundsCache, fetched |-> {}]
  IN IF \E i \in 1..Len(deps) : Outbound(deps[i]) = Nil THEN failed
     ELSE IF options.Default # "" /\ options.Default \notin Range(deps) THEN failed
     ELSE LET seed == [err |-> FALSE, panic |-> FALSE, tags |-> deps,
                       outboundByTag |-> [t \in Range(deps) |-> Outbound(t)],
                       cache |-> outboundsCache, fetched |-> {}]
              acc == ProviderLoop(1, tag, pTags, provs, seed)
          IN IF acc.panic \/ acc.tags # <<>> THEN acc
             ELSE [acc EXCEPT !.tags = <<Outbound(Compatible).tag>>,
                              !.outboundByTag = (Outbound(Compatible).tag :> Outbound(Compatible)) @@ @]

\* Mutant of LoadSelected: the persisted value is never read.
LoadSelectedNothing(cf) == ""

\* CacheFile.LoadSelected(s.Tag()) as outboundSelect reads it ("" when the
\* Selector has no tag or no cache file).
LoadSelected(cf) == IF options.Tag # "" /\ cf THEN store ELSE ""

\* Selector.outboundSelect() on the given candidate map and list.
outboundSelect(outb, tgs, cf) ==
  LET S == LoadSelected(cf) IN
  IF S # "" /\ S \in DOMAIN outb
  THEN [err |-> FALSE, panic |-> FALSE, detour |-> outb[S]]
  ELSE IF options.Default # ""
  THEN IF options.Default \notin DOMAIN outb
       THEN [err |-> TRUE, panic |-> FALSE, detour |-> Nil]
       ELSE [err |-> FALSE, panic |-> FALSE, detour |-> outb[options.Default]]
  ELSE IF tgs = <<>>
  THEN [err |-> FALSE, panic |-> TRUE, detour |-> Nil]
  ELSE [err |-> FALSE, panic |-> FALSE, detour |-> outb[tgs[1]]]

\* The persistence branch of SelectOutbound is taken.
Persists == options.Tag # "" /\ options.CacheFile

\* Mutant of SelectOutbound: no early return when the member is unchanged.
SelectOutboundAlways(tag, outb) ==
  IF tag \notin DOMAIN outb
  THEN [ret |-> FALSE, selected |-> selected, store |-> store,
        wrote |-> FALSE, interrupted |-> FALSE]
  ELSE [ret |-> TRUE, selected |-> outb[tag],
        store |-> IF options.Tag # "" /\ options.CacheFile THEN tag ELSE store,
        wrote |-> options.Tag # "" /\ options.CacheFile, interrupted |-> TRUE]

\* Selector.SelectOutbound(tag) on candidate map outb: what it returns and
\* the active selection and store it leaves.
SelectOutbound(tag, outb) ==
  IF tag \notin DOMAIN outb
  THEN [ret |-> FALSE, selected |-> selected, store |-> store,
        wrote |-> FALSE, interrupted |-> FALSE]
  ELSE IF selected = outb[tag]
  THEN [ret |-> TRUE, selected |-> outb[tag], store |-> store,
        wrote |-> FALSE, interrupted |-> FALSE]
  ELSE [ret |-> TRUE, selected |-> outb[tag],
        store |-> IF Persists THEN tag ELSE store,
        wrote |-> Persists, interrupted |-> TRUE]

\* Mutant of Now: the effective tag of the active member.
NowEffective ==
  IF selected = Nil THEN tags[1]
  ELSE IF selected.tag = "G" THEN "g1" ELSE selected.tag

\* Selector.Now()
Now == IF selected = Nil THEN tags[1] ELSE selected.tag

\* Selector.All()
All == tags

\* RealTag(detour)
RealTag(detour) == IF IsGroup(detour) THEN GroupNow(detour) ELSE detour.tag

\* Selector.HasProvider(tag)
HasProvider(tag) ==
  IF options.UseAllProviders THEN Provider(tag) # NilProvider
  ELSE tag \in Range(providerTags)

\* NewSelector: the fields of a freshly constructed Selector.
NewFields(o) ==
  /\ options' = o
  /\ state' = "new"
  /\ tags' = o.Outbounds
  /\ outbounds' = EmptyMap
  /\ outboundsCache' = [p \in ProviderNames |-> <<>>]
  /\ providers' = EmptyMap
  /\ providerTags' = o.Providers
  /\ selected' = Nil
  /\ cacheFile' = FALSE

\* ------------------------------------------------------------------ actions
\* The state after construction: the Selector built from configuration o,
\* every provider after its initial load, watchers started for w.
InitWith(O, w) ==
  /\ \E o \in O :
       /\ options = o
       /\ tags = o.Outbounds
       /\ providerTags = o.Providers
  /\ watching = w
  /\ state = "new"
  /\ outbounds = EmptyMap
  /\ outboundsCache = [p \in ProviderNames |-> <<>>]
  /\ providers = EmptyMap
  /\ selected = Nil
  /\ cacheFile = FALSE
  /\ store = ""
  /\ managerOutbounds = StaticTags \cup {Compatible}
  /\ provOutbounds = [p \in Range(ManagerProviders) |->
                        IF p = "P" THEN <<[tag |-> "p1", id |-> 0], [tag |-> "p2", id |-> 0]>>
                        ELSE <<[tag |-> "q1", id |-> 0]>>]
  /\ updating = [p \in Range(ManagerProviders) |-> FALSE]
  /\ reloading = [p \in Range(ManagerProviders) |-> 0]
  /\ deferred = [p \in Range(ManagerProviders) |-> 0]
  /\ notifying = [p \in Range(ManagerProviders) |-> 0]
  /\ local = [p \in Range(ManagerProviders) |-> NoLocal]
  /\ conns = NoConns
  /\ last = NoOp

\* ProviderLocal.Start logs a failed watcher start and goes on
\* (lcoal.go:97-102): in Init only the watcher of "P" started.
Init == InitWith(Options, {"P"})

\* Both watchers started.
InitBoth == InitWith(OptionsBoth, {"P", "Q"})

\* The provider bindings Start resolves (part_000:104-119).
StartProviderTags == IF options.UseAllProviders THEN ManagerProviders ELSE providerTags

StartProviders == [t \in Range(StartProviderTags) |-> Provider(t)]

\* Selector.Start()
Start ==
  /\ state = "new"
  /\ providers' = StartProviders
  /\ providerTags' = StartProviderTags
  /\ UNCHANGED <<options, store, managerOutbounds, providerVars, conns>>
  /\ IF Len(tags) + Len(StartProviderTags) = 0
     THEN /\ state' = "failed"
          /\ last' = Op("Start", "", "error")
          /\ UNCHANGED <<tags, outbounds, outboundsCache, selected, cacheFile>>
     ELSE LET f == filterOutbounds("", StartProviderTags, StartProviders) IN
       IF f.panic \/ f.err
       THEN /\ state' = IF f.panic THEN "crashed" ELSE "failed"
            /\ last' = Op("Start", "", IF f.panic THEN "panic" ELSE "error")
            /\ UNCHANGED <<tags, outbounds, outboundsCache, selected, cacheFile>>
       ELSE LET sel == outboundSelect(f.outboundByTag, f.tags, options.CacheFile) IN
            /\ tags' = f.tags
            /\ outbounds' = f.outboundByTag
            /\ outboundsCache' = f.cache
            /\ cacheFile' = options.CacheFile
            /\ state' = IF sel.err THEN "failed" ELSE "running"
            /\ selected' = IF sel.err THEN selected ELSE sel.detour
            /\ last' = [Op("Start", "", IF sel.err THEN "error" ELSE "ok") EXCEPT
                          !.rebuilt = TRUE]

\* What a SelectOutbound call that returned r does to the dials and the
\* connections: a swap to another member leaves every dial in flight on a
\* member loaded before it, and interruptGroup.Interrupt closes the
\* connections registered so far (part_000:157, 167).
AfterSelect(r) ==
  [dialing |-> IF r.selected # selected
               THEN {[d EXCEPT !.stale = TRUE] : d \in conns.dialing}
               ELSE conns.dialing,
   open |-> IF r.interrupted THEN {} ELSE conns.open]

\* An explicit selection request: Selector.SelectOutbound(tag).
UserSelect(tag) ==
  /\ state = "running"
  /\ LET r == SelectOutbound(tag, outbounds)
         again == last.op = "SelectOutbound" /\ last.arg = tag /\ last.ret = "true"
     IN /\ selected' = r.selected
        /\ store' = r.store
        /\ conns' = AfterSelect(r)
        /\ last' = [Op("SelectOutbound", tag, IF r.ret THEN "true" ELSE "false") EXCEPT
                      !.wrote = r.wrote, !.interrupted = r.interrupted,
                      !.twice = again,
                      !.prevWrote = again /\ last.wrote]
  /\ UNCHANGED <<options, state, tags, outbounds, outboundsCache, providers,
                 providerTags, cacheFile, managerOutbounds, providerVars>>

\* The debounce test of UpdateOutbounds (part_000:230-234).
OtherUpdating(tag) ==
  \E i \in 1..Len(ManagerProviders) :
     ManagerProviders[i] # tag /\ IsUpdating(ManagerProviders[i])

\* Selector.UpdateOutbounds(tag) from the return of its filterOutbounds call
\* on (part_000:227-240): f is what the call returned and f.cache the cache
\* it left.
Install(tag, f) ==
       \E sel \in {outboundSelect(f.outboundByTag, f.tags, cacheFile)} :
       \E r \in {SelectOutbound(sel.detour.tag, f.outboundByTag)} :
    IF f.panic
    THEN /\ state' = "crashed"
         /\ last' = Op("UpdateOutbounds", tag, "panic")
         /\ UNCHANGED <<tags, outbounds, outboundsCache, selected, store, conns>>
    ELSE
      /\ tags' = f.tags
      /\ outbounds' = f.outboundByTag
      /\ outboundsCache' = f.cache
      /\ IF OtherUpdating(tag)
         THEN /\ last' = [Op("UpdateOutbounds", tag, "debounced") EXCEPT
                            !.rebuilt = ~f.err]
              /\ UNCHANGED <<state, selected, store, conns>>
         ELSE IF sel.panic \/ sel.err
         THEN /\ state' = IF sel.panic THEN "crashed" ELSE state
              /\ last' = [Op("UpdateOutbounds", tag,
                               IF sel.panic THEN "panic" ELSE "select failed") EXCEPT
                            !.rebuilt = ~f.err]
              /\ UNCHANGED <<selected, store, conns>>
         ELSE /\ selected' = r.selected
              /\ store' = r.store
              /\ conns' = AfterSelect(r)
              /\ last' = [Op("UpdateOutbounds", tag, "ok") EXCEPT
                            !.wrote = r.wrote, !.interrupted = r.interrupted,
                            !.rebuilt = TRUE]
              /\ UNCHANGED state

\* Selector.UpdateOutbounds(tag), run without interruption.
UpdateOutbounds(tag) ==
  IF tag \notin DOMAIN providers
  THEN /\ last' = Op("UpdateOutbounds", tag, "not found")
       /\ UNCHANGED <<state, tags, outbounds, outboundsCache, selected, store, conns>>
  ELSE \E f \in {filterOutbounds(tag, providerTags, providers)} : Install(tag, f)

\* NewSelector over the same configuration and store: the restart of a
\* running Selector.
NewSelector ==
  /\ state = "running"
  /\ NewFields(options)
  /\ last' = Op("NewSelector", "", "")
  /\ UNCHANGED <<store, managerOutbounds, providerVars, conns>>

\* ------------------------------------------------------------ ProviderLocal
\* Mutant of SwapUpdating: the flag is set without looking at its value.
SwapUpdatingBlind(p) == FALSE

\* provider.updating.Swap(true): the value the flag held (lcoal.go:72).
SwapUpdating(p) == updating[p]

\* Mutant of Callback: the event starts a reload whatever the flag holds.
CallbackUnguarded(p) ==
  /\ state = "running"
  /\ p \in watching
  /\ reloading[p] + deferred[p] + notifying[p] < 2
  /\ updating' = [updating EXCEPT ![p] = TRUE]
  /\ reloading' = [reloading EXCEPT ![p] = @ + 1]
  /\ last' = Op("Callback", p, IF updating[p] THEN "dropped" ELSE "reload")
  /\ UNCHANGED <<selectorVars, conns, store, managerOutbounds, provOutbounds,
                 deferred, notifying, watching, local>>

\* The watcher's Callback up to its guard: a file-change event of provider p.
\* An event that finds the flag set returns at once.
Callback(p) ==
  /\ state = "running"
  /\ p \in watching
  /\ updating' = [updating EXCEPT ![p] = TRUE]
  /\ IF SwapUpdating(p)
     THEN /\ last' = [Op("Callback", p, "dropped") EXCEPT
                        !.twice = (last.op = "Callback" /\ last.arg = p
                                   /\ last.ret = "dropped")]
          /\ UNCHANGED reloading
     ELSE /\ notifying[p] < MaxPending
          /\ reloading' = [reloading EXCEPT ![p] = @ + 1]
          /\ last' = Op("Callback", p, "reload")
  /\ UNCHANGED <<selectorVars, conns, store, managerOutbounds, provOutbounds,
                 deferred, notifying, watching, local>>

\* The ordered outbound lists a provider's file may parse to.
Contents(p) ==
  (IF p = "Q" THEN {} ELSE {<<>>}) \cup {<<t>> : t \in ProviderUniverse(p)}
         \cup {c \in ProviderUniverse(p) \X ProviderUniverse(p) : c[1] # c[2]}

\* The outbound instances the Selector still refers to.
Referenced ==
  UNION {Range(outboundsCache[p]) : p \in DOMAIN outboundsCache}
  \cup {outbounds[t] : t \in DOMAIN outbounds}
  \cup {selected}

\* The identities a new instance of tag t may take: one the Selector holds
\* no reference to.  Only the entry "p1" changes its configuration between
\* reloads; the Selector refers to at most two instances of a tag (the one
\* in its cache and map, and the active selection).
Ids(t) == IF t = "p1" THEN 0..MaxGen ELSE {0}

FreeIds(t) == {i \in Ids(t) : [tag |-> t, id |-> i] \notin Referenced}

\* provider.Adapter.UpdateOutbounds(lastOutOpts, outboundOpts): an entry
\* unchanged by tag and configuration keeps its instance, any other entry
\* (new, or in `changed`) is a new instance.
Instances(p, content, changed) ==
  [i \in 1..Len(content) |->
     LET kept == {o \in Range(provOutbounds[p]) : o.tag = content[i]} IN
     IF kept # {} /\ content[i] \notin changed
     THEN CHOOSE o \in kept : TRUE
     ELSE [tag |-> content[i],
           id |-> CHOOSE n \in FreeIds(content[i]) : \A m \in FreeIds(content[i]) : n <= m]]

\* The entries of content that need a new instance.
Created(p, content, changed) ==
  {t \in Range(content) : t \in changed \/ \A o \in Range(provOutbounds[p]) : o.tag # t}

\* Mutant of ReloadFile: the held list is dropped before the file is read,
\* so a failed reload leaves the provider without outbounds.
ReloadFileClearsFirst(p) ==
  /\ state \in {"new", "running"}
  /\ reloading[p] > 0
  /\ reloading' = [reloading EXCEPT ![p] = @ - 1]
  /\ deferred' = [deferred EXCEPT ![p] = @ + 1]
  /\ provOutbounds' = [provOutbounds EXCEPT ![p] = <<>>]
  /\ last' = Op("reloadFile", p, "error")
  /\ UNCHANGED <<selectorVars, conns, store, managerOutbounds, updating, notifying, watching,
                 local>>

\* Mutant of ReloadFile: a failed reload returns from the callback at once,
\* the flag left set and nobody notified.
ReloadFileFailureReturns(p) ==
  /\ state \in {"new", "running"}
  /\ reloading[p] > 0
  /\ reloading' = [reloading EXCEPT ![p] = @ - 1]
  /\ last' = Op("reloadFile", p, "error")
  /\ UNCHANGED <<selectorVars, conns, store, managerOutbounds, provOutbounds, updating,
                 deferred, notifying, watching, local>>

\* ProviderLocal.reloadFile(path) of a watcher callback: it fails at the read
\* or the parse, or replaces the held list.
ReloadFile(p) ==
  /\ state \in {"new", "running"}
  /\ reloading[p] > 0
  /\ reloading' = [reloading EXCEPT ![p] = @ - 1]
  /\ deferred' = [deferred EXCEPT ![p] = @ + 1]
  /\ \/ /\ last' = Op("reloadFile", p, "error")
        /\ UNCHANGED provOutbounds
     \/ \E content \in Contents(p) : \E changed \in SUBSET Range(content) :
          /\ \A t \in Created(p, content, changed) : FreeIds(t) # {}
          /\ provOutbounds' = [provOutbounds EXCEPT ![p] = Instances(p, content, changed)]
          /\ last' = Op("reloadFile", p, "ok")
  /\ UNCHANGED <<selectorVars, conns, store, managerOutbounds, updating, notifying, watching,
                 local>>

\* The first statement of the deferred function: updating.Store(false).
StoreUpdating(p) ==
  /\ state \in {"new", "running"}
  /\ deferred[p] > 0
  /\ deferred' = [deferred EXCEPT ![p] = @ - 1]
  /\ notifying' = [notifying EXCEPT ![p] = @ + 1]
  /\ updating' = [updating EXCEPT ![p] = FALSE]
  /\ last' = Op("Store", p, "")
  /\ UNCHANGED <<selectorVars, conns, store, managerOutbounds, provOutbounds, reloading, watching,
                 local>>

\* provider.UpdateGroups(): the Selector is notified when it has the provider.
UpdateGroups(p) ==
  /\ state \in {"new", "running"}
  /\ notifying[p] > 0
  /\ notifying' = [notifying EXCEPT ![p] = @ - 1]
  /\ IF HasProvider(p)
     THEN UpdateOutbounds(p)
     ELSE /\ last' = Op("UpdateGroups", p, "")
          /\ UNCHANGED <<state, tags, outbounds, outboundsCache, selected, store, conns>>
  /\ UNCHANGED <<options, providers, providerTags, cacheFile, managerOutbounds,
                 provOutbounds, updating, reloading, deferred, watching, local>>

\* The outbound manager loses a static outbound (OutboundManager.Remove).
RemoveOutbound(t) ==
  /\ state = "running"
  /\ t \in managerOutbounds \ {Compatible}
  /\ managerOutbounds' = managerOutbounds \ {t}
  /\ last' = Op("Remove", t, "")
  /\ UNCHANGED <<selectorVars, store, providerVars, conns>>

SelectableTags == {"A", "G", "p1", "q1"}

Next ==
  \/ Start
  \/ \E tag \in SelectableTags : UserSelect(tag)
  \/ NewSelector
  \/ \E p \in Range(ManagerProviders) : Callback(p)
  \/ \E p \in Range(ManagerProviders) : ReloadFile(p)
  \/ \E p \in Range(ManagerProviders) : StoreUpdating(p)
  \/ \E p \in Range(ManagerProviders) : UpdateGroups(p)

Spec == Init /\ [][Next]_vars

SpecBoth == InitBoth /\ [][Next]_vars

\* The same system in an environment where the outbound manager may lose
\* static outbounds while the Selector runs.
NextEnv ==
  \/ Next
  \/ \E t \in StaticTags : RemoveOutbound(t)

SpecEnv == Init /\ [][NextEnv]_vars

\* That environment with both watchers started.
SpecBothEnv == InitBoth /\ [][NextEnv]_vars

\* A callback that acquired the flag runs to its end: the steps of the
\* watcher's goroutine are scheduled.  File-change events, explicit
\* selections and restarts need not happen.
Fairness ==
  \A p \in Range(ManagerProviders) :
     /\ WF_vars(ReloadFile(p))
     /\ WF_vars(StoreUpdating(p))
     /\ WF_vars(UpdateGroups(p))

SpecFair == Init /\ [][Next]_vars /\ Fairness

\* The watcher of "P" running under the same scheduling, on the two
\* configurations of OptionsBoth.
InitLive == InitWith(OptionsBoth, {"P"})

SpecLive == InitLive /\ [][Next]_vars /\ Fairness

\* --------------------------------------------- UpdateOutbounds, interleaved
\* The Selector holds no lock: the UpdateOutbounds calls of two providers'
\* callbacks run in the callbacks' goroutines and may interleave.  A call is
\* split where it has read and written the cache and holds the rebuilt list
\* and map in its locals (part_000:227), before it assigns them.

\* The provider's notification reaches UpdateOutbounds and passes its
\* binding test (part_000:223-226).
Bound(p) == HasProvider(p) /\ p \in DOMAIN providers

\* UpdateGroups -> Selector.UpdateOutbounds(p) up to the return of
\* filterOutbounds(p).
FilterStep(p) ==
  /\ state \in {"new", "running"}
  /\ notifying[p] > 0
  /\ local[p] = NoLocal
  /\ Bound(p)
  /\ \E f \in {filterOutbounds(p, providerTags, providers)} :
        /\ outboundsCache' = f.cache
        /\ local' = [local EXCEPT ![p] = f]
  /\ last' = Op("filterOutbounds", p, "")
  /\ UNCHANGED <<options, state, tags, outbounds, providers, providerTags, selected,
                 cacheFile, store, conns, managerOutbounds, provOutbounds, updating,
                 reloading, deferred, notifying, watching>>

\* The rest of that call: the assignments of the list and the map, the
\* debounce test and the reselection (part_000:228-240).
InstallStep(p) ==
  /\ state \in {"new", "running"}
  /\ local[p] # NoLocal
  /\ notifying' = [notifying EXCEPT ![p] = @ - 1]
  /\ local' = [local EXCEPT ![p] = NoLocal]
  /\ Install(p, [local[p] EXCEPT !.cache = outboundsCache])
  /\ UNCHANGED <<options, providers, providerTags, cacheFile, managerOutbounds,
                 provOutbounds, updating, reloading, deferred, watching>>

\* The notification of a provider the Selector is not bound to.
UpdateGroupsUnbound(p) == ~Bound(p) /\ UpdateGroups(p)

NextRace ==
  \/ Start
  \/ \E tag \in SelectableTags : UserSelect(tag)
  \/ \E p \in Range(ManagerProviders) : Callback(p)
  \/ \E p \in Range(ManagerProviders) : ReloadFile(p)
  \/ \E p \in Range(ManagerProviders) : StoreUpdating(p)
  \/ \E p \in Range(ManagerProviders) : FilterStep(p)
  \/ \E p \in Range(ManagerProviders) : InstallStep(p)
  \/ \E p \in Range(ManagerProviders) : UpdateGroupsUnbound(p)

SpecRace == InitBoth /\ [][NextRace]_vars

\* ------------------------------------------- DialContext, interleaved
\* DialContext holds no lock either: it loads the active member, dials
\* through it, which blocks its task, and registers the connection with the
\* interrupt group when the dial has returned (part_000:172-176).
\* SelectOutbound calls of other tasks run in between.

\* The calls in flight and the open connections the model follows.
MaxConns == 2

\* s.selected.Load() of an internally-initiated DialContext call; the dial
\* through the loaded member begins.
DialLoad ==
  /\ state = "running"
  /\ selected # Nil
  /\ Cardinality(conns.dialing) + Cardinality(conns.open) < MaxConns
  /\ conns' = [conns EXCEPT !.dialing = @ \cup {[member |-> selected, stale |-> FALSE]}]
  /\ last' = Op("DialContext", selected.tag, "load")
  /\ UNCHANGED <<selectorVars, providerVars, store, managerOutbounds>>

\* The member's dial fails: DialContext returns the error (part_000:173-175).
DialError(d) ==
  /\ state = "running"
  /\ d \in conns.dialing
  /\ conns' = [conns EXCEPT !.dialing = @ \ {d}]
  /\ last' = Op("DialContext", d.member.tag, "error")
  /\ UNCHANGED <<selectorVars, providerVars, store, managerOutbounds>>

\* The member's dial succeeds: interruptGroup.NewConn registers the
\* connection and DialContext returns it (part_000:176).
DialRegister(d) ==
  /\ state = "running"
  /\ d \in conns.dialing
  /\ conns' = [dialing |-> conns.dialing \ {d}, open |-> conns.open \cup {d}]
  /\ last' = Op("DialContext", d.member.tag, "conn")
  /\ UNCHANGED <<selectorVars, providerVars, store, managerOutbounds>>

\* The caller or the peer closes a connection.
ConnClose(c) ==
  /\ state = "running"
  /\ c \in conns.open
  /\ conns' = [conns EXCEPT !.open = @ \ {c}]
  /\ last' = Op("Close", c.member.tag, "")
  /\ UNCHANGED <<selectorVars, providerVars, store, managerOutbounds>>

NextDial ==
  \/ Start
  \/ \E tag \in SelectableTags : UserSelect(tag)
  \/ DialLoad
  \/ \E d \in conns.dialing : DialError(d)
  \/ \E d \in conns.dialing : DialRegister(d)
  \/ \E c \in conns.open : ConnClose(c)

SpecDial == Init /\ [][NextDial]_vars

\* ------------------------------------------------------------------ claims
\* The step is a call of UpdateOutbounds on a provider the Selector holds.
UpdateStep == last'.op = "UpdateOutbounds" /\ last'.ret # "not found"

\* The step is a call that ran outboundSelect.
SelectStep ==
  \/ last'.op = "Start" /\ last'.ret = "ok"
  \/ last'.op = "UpdateOutbounds" /\ last'.ret \in {"ok", "select failed", "panic"}

\* The persisted value outboundSelect reads in a SelectStep.
PersistedRead == IF options.Tag # "" /\ cacheFile' THEN store ELSE ""

\* The active selection is one of the outbounds of the candidate map.
ActiveIsCandidate == \E t \in DOMAIN outbounds : outbounds[t] = selected

\* C1: whenever the Selector runs (after a successful Start, through every
\* SelectOutbound and UpdateOutbounds call, debounced rounds included) the
\* active selection is an outbound held in the candidate map.
C1_ActiveInCandidates == state = "running" => ActiveIsCandidate

\* C2: outboundSelect returns the persisted S when the Selector
\* has a tag and S is a candidate; otherwise the default D when D is
\* configured and a candidate; otherwise the outbound of the first tag.
C2_AlwaysReturnsCandidate ==
  [][SelectStep =>
       LET S == PersistedRead
           D == options.Default
       IN IF S # "" /\ S \in DOMAIN outbounds'
          THEN last'.ret = "ok" /\ selected' = outbounds'[S]
          ELSE IF D # "" /\ D \in DOMAIN outbounds'
          THEN last'.ret = "ok" /\ selected' = outbounds'[D]
          ELSE /\ last'.ret = "ok"
               /\ tags' # <<>>
               /\ selected' = outbounds'[tags'[1]]]_vars

\* C3: on a Selector with a tag and a cache file, a SelectOutbound(t) that
\* changes the active member leaves (tag, t) in the store, and a Selector
\* started over a store whose value is a candidate has Now() equal to it.
C3_PersistedRoundTrip ==
  /\ (last.op = "SelectOutbound" /\ last.interrupted /\ options.Tag # "" /\ options.CacheFile)
        => (store = last.arg /\ last.wrote)
  /\ (last.op = "Start" /\ last.ret = "ok" /\ options.Tag # "" /\ options.CacheFile
        /\ store \in DOMAIN outbounds)
        => (Now = store /\ selected = outbounds[store])

\* C3 witness: a restarted Selector came up on the persisted "p1", which is
\* neither the first candidate nor a default.
C3_Witness ==
  /\ last.op = "Start" /\ last.ret = "ok"
  /\ store = "p1" /\ Now = "p1" /\ tags[1] = "A" /\ options.Default = ""

\* The second of two consecutive SelectOutbound(t) calls on a candidate t.
SecondCall == last.op = "SelectOutbound" /\ last.twice

BoolToNat(b) == IF b THEN 1 ELSE 0

\* C4 as stated: two consecutive SelectOutbound(t) calls produce exactly one
\* persistence write, none of it by the second call, which returns true and
\* sends no interrupt.
C4_ExactlyOneWrite ==
  SecondCall =>
    /\ last.ret = "true" /\ ~last.wrote /\ ~last.interrupted
    /\ BoolToNat(last.prevWrote) + BoolToNat(last.wrote) = 1

\* C4 amended: the second call returns true, writes nothing, sends no
\* interrupt and changes neither the selection, the store nor the
\* candidates; the two calls write the store at most once.
C4_SecondCallNoEffect ==
  /\ [](SecondCall =>
          /\ last.ret = "true" /\ ~last.wrote /\ ~last.interrupted
          /\ BoolToNat(last.prevWrote) + BoolToNat(last.wrote) <= 1
          /\ selected = outbounds[last.arg])
  /\ [][(last'.op = "SelectOutbound" /\ last'.twice) =>
          UNCHANGED <<selected, store, tags, outbounds, outboundsCache>>]_vars

\* C4 witness: the second call followed a first call that wrote the store.
C4_Witness == SecondCall /\ last.prevWrote /\ store = last.arg

\* The tag list filterOutbounds builds from the provider lists in cache c.
RECURSIVE ProviderTagList(_, _)
ProviderTagList(pTags, c) ==
  IF pTags = <<>> THEN <<>>
  ELSE TagsOf(c[Head(pTags)]) \o ProviderTagList(Tail(pTags), c)

CandidateList(c) ==
  LET l == options.Outbounds \o ProviderTagList(providerTags', c)
  IN IF l = <<>> THEN <<Compatible>> ELSE l

\* The outbounds of list the include/exclude rule admits, in order.
AdmittedBySpec(list) ==
  SelectSeq(list, LAMBDA o :
    /\ (options.Include.nil \/ MatchString(options.Include, o.tag))
    /\ ~(~options.Exclude.nil /\ MatchString(options.Exclude, o.tag)))

\* C5: an UpdateOutbounds(B) that runs while another bound provider reports
\* IsUpdating rebuilds B's cache entry and the candidate list and map from
\* B's current outbounds, and leaves the active selection and the store
\* unchanged, writing nothing and signalling no interrupt.
C5_DebounceKeepsSelection ==
  [][(UpdateStep /\ \E A \in Range(providerTags) \ {last'.arg} : IsUpdating(A)) =>
       /\ outboundsCache'[last'.arg] = AdmittedBySpec(provOutbounds[last'.arg])
       /\ tags' = CandidateList(outboundsCache')
       /\ \A o \in Range(outboundsCache'[last'.arg]) : outbounds'[o.tag] = o
       /\ selected' = selected /\ store' = store
       /\ ~last'.wrote /\ ~last'.interrupted]_vars

\* C6: UpdateOutbounds(A) leaves the cache entry of every other bound
\* provider B unchanged (B is not queried), whatever B's cached list is, and
\* B's entries in the rebuilt map are the instances of B's cache.
C6_OtherProvidersReused ==
  [][UpdateStep =>
       \A B \in Range(providerTags) \ {last'.arg} :
          /\ outboundsCache'[B] = outboundsCache[B]
          /\ \A o \in Range(outboundsCache[B]) : outbounds'[o.tag] = o]_vars

\* The providers a rebuild for the changed provider `tag` fetches.
Fetched(tag) == {p \in Range(providerTags') : p = tag \/ outboundsCache[p] = <<>>}

\* The step ran filterOutbounds and it returned candidates.
RebuildStep == last'.op \in {"Start", "UpdateOutbounds"} /\ last'.rebuilt

\* C7: the outbounds filterOutbounds admits from a freshly fetched provider
\* are those with (no include or tag matches include) and not (exclude set
\* and tag matches exclude), in the provider's order; they are the
\* provider's cache entry and its part of the candidate list.
C7_FilterRule ==
  [][RebuildStep =>
       /\ \A p \in Fetched(IF last'.op = "Start" THEN "" ELSE last'.arg) :
            outboundsCache'[p] = AdmittedBySpec(provOutbounds[p])
       /\ tags' = CandidateList(outboundsCache')]_vars

\* C7 witness: with include and exclude both set, a rebuild admitted "p2"
\* alone from the provider list <<p1, p2>> ("q1" fails the include).
C7_Witness ==
  /\ last.op = "UpdateOutbounds" /\ last.ret = "ok"
  /\ ~options.Include.nil /\ ~options.Exclude.nil
  /\ TagsOf(provOutbounds["P"]) = <<"p1", "p2">>
  /\ TagsOf(outboundsCache["P"]) = <<"p2">>
  /\ tags = <<"p2">>

\* C8: while the Selector runs, after Start and after every UpdateOutbounds
\* call, All() is non-empty, and it is <<"Compatible">> when no static tag is
\* configured and no provider outbound survived the filter.
C8_CandidatesNeverEmpty ==
  (state = "running" /\ last.op \in {"Start", "UpdateOutbounds"}) =>
    /\ All # <<>>
    /\ (options.Outbounds = <<>> /\ \A p \in Range(providerTags) : outboundsCache[p] = <<>>)
         => All = <<Compatible>>

\* Two file-change events of one provider were dropped back to back.
TwoDropped(p) ==
  last.op = "Callback" /\ last.arg = p /\ last.ret = "dropped" /\ last.twice

\* C9 as stated: two events dropped during a reload lead to one further
\* reload of the provider (as long as the process lives).
C9_OneFurtherReload ==
  \A p \in Range(ManagerProviders) :
     TwoDropped(p) ~> \/ last.op = "Callback" /\ last.arg = p /\ last.ret = "reload"
                      \/ state \in {"failed", "crashed"}

\* C9 amended: events that arrive while a reload is in progress are
\* dropped, not queued: they start no reload and change nothing but the
\* flag they find set, and no two reloads of a provider overlap.
C9_DroppedNotQueued ==
  /\ [](\A p \in Range(ManagerProviders) : reloading[p] + deferred[p] <= 1)
  /\ [][(last'.op = "Callback" /\ last'.ret = "dropped") =>
          /\ updating[last'.arg]
          /\ UNCHANGED <<updating, reloading, deferred, notifying, provOutbounds,
                         selectorVars, store>>]_vars
  /\ [][\A p \in Range(ManagerProviders) :
          reloading'[p] > reloading[p] => (~updating[p] /\ reloading[p] + deferred[p] = 0)]_vars

\* C9 witness: two events were dropped back to back during a reload.
C9_Witness == TwoDropped("P") /\ reloading["P"] = 1

\* C10 as stated: Now() is the effective tag of the active member: the
\* member's tag, or the member's own Now() when the member is a group.
C10_NowIsRealTag == state = "running" => Now = RealTag(selected)

\* C10 amended: Now() is the active member's own tag, also when the member
\* is a group: after SelectOutbound(t) succeeds, Now() is t.
C10_NowIsOwnTag ==
  /\ (last.op = "SelectOutbound" /\ last.ret = "true") => Now = last.arg
  /\ (state = "running" /\ IsGroup(selected)) => Now # RealTag(selected)

\* C10 witness: the group "G" was selected and Now() is "G", not its member.
C10_Witness ==
  /\ last.op = "SelectOutbound" /\ last.arg = "G" /\ last.ret = "true"
  /\ Now = "G" /\ RealTag(selected) = "g1"

\* The step is an UpdateOutbounds whose filterOutbounds call returns an error.
FailedRebuildStep ==
  UpdateStep /\ filterOutbounds(last'.arg, providerTags, providers).err

\* C11: a provider-driven UpdateOutbounds whose candidate rebuild fails does
\* not crash and leaves the candidate list, the candidate map and the active
\* selection as they were.
C11_FailedRebuildAbsorbed ==
  [][FailedRebuildStep =>
       /\ state' = state
       /\ UNCHANGED <<tags, outbounds, selected>>]_vars

\* C12: the persisted value is the user's last explicit choice: a
\* provider-driven reconciliation that finds the persisted choice absent from
\* the candidate map and falls back to the default or the first candidate
\* does not overwrite the persisted value.
C12_ReconciliationKeepsStore ==
  [][(UpdateStep /\ store # "" /\ store \notin DOMAIN outbounds') =>
        store' = store]_vars

\* C13: UpdateOutbounds(p) skips the reselection exactly when a provider
\* bound to the Selector, other than p, reports IsUpdating; otherwise (a
\* provider that is not bound may be updating) it reselects.
C13_DebounceOnBoundOnly ==
  [][UpdateStep =>
       (last'.ret = "debounced" <=>
          \E A \in Range(providerTags) \ {last'.arg} : IsUpdating(A))]_vars

\* No watcher callback of any provider is in flight: every reload that
\* began has finished, cleared its flag and notified.
Quiescent ==
  \A p \in Range(ManagerProviders) :
     ~updating[p] /\ reloading[p] + deferred[p] + notifying[p] = 0

\* C14: once all in-flight reloads have finished and notified, the provider
\* that finished last has reselected on the final candidate set: the active
\* selection is a member of the final candidate map.
C14_LastFinisherReselects ==
  (state = "running" /\ Quiescent) => ActiveIsCandidate

\* The step is a watcher callback that found the in-flight flag set.
DroppedStep == last'.op = "Callback" /\ last'.ret = "dropped"

\* C15: for one ProviderLocal at most one reloadFile executes at any time,
\* and a callback that finds the flag set returns without reloading, without
\* queuing a retry and without notifying the Selector.
C15_AtMostOneReload ==
  /\ [](\A p \in Range(ManagerProviders) :
          /\ reloading[p] <= 1
          /\ reloading[p] = 1 => updating[p])
  /\ [][DroppedStep =>
          /\ reloading' = reloading /\ deferred' = deferred /\ notifying' = notifying
          /\ provOutbounds' = provOutbounds
          /\ UNCHANGED <<tags, outbounds, outboundsCache, selected, store>>]_vars

\* C15 witness: an event of "Q" was dropped while the reload of "Q" was
\* executing and "P" was reloading too.
C15_Witness ==
  /\ last.op = "Callback" /\ last.arg = "Q" /\ last.ret = "dropped"
  /\ reloading["Q"] = 1 /\ reloading["P"] = 1

\* The callback of provider p that holds the flag has left reloadFile,
\* with or without an error.
Reloaded(p) == last.op = "reloadFile" /\ last.arg = p

\* The notification of provider p has been sent.
Notified(p) == last.op \in {"UpdateOutbounds", "UpdateGroups"} /\ last.arg = p

\* C16: a reload attempt that acquired the flag, whether reloadFile succeeded
\* or failed, ends by clearing the flag and then notifying: the callback
\* reaches its notification, the step before the notification clears the
\* flag, and the notification runs UpdateOutbounds on a bound Selector.
C16_ClearThenNotify ==
  /\ \A p \in Range(ManagerProviders) : Reloaded(p) ~> Notified(p)
  /\ [][\A p \in Range(ManagerProviders) :
          /\ notifying'[p] > notifying[p] =>
               (deferred'[p] < deferred[p] /\ updating[p] /\ ~updating'[p])
          /\ notifying'[p] < notifying[p] =>
               (Notified(p)' /\ (HasProvider(p) <=> last'.op = "UpdateOutbounds"))]_vars

\* C16 witness: the callback of "P" holds the flag and its reloadFile has
\* just failed.
C16_Witness ==
  /\ last.op = "reloadFile" /\ last.arg = "P" /\ last.ret = "error"
  /\ updating["P"] /\ deferred["P"] = 1 /\ state = "running"

\* The configuration names a provider tag the provider manager cannot resolve.
UnresolvedProvider ==
  /\ ~options.UseAllProviders
  /\ \E i \in 1..Len(options.Providers) : Provider(options.Providers[i]) = NilProvider

\* The provider tags of the configuration that the manager resolves.
ResolvedProviderTags ==
  SelectSeq(options.Providers, LAMBDA t : Provider(t) # NilProvider)

\* C17: Start of a Selector configured with a provider tag the manager
\* cannot resolve completes without error or crash, and the candidates are
\* the static tags followed by the outbounds of the resolved providers.
C17_UnresolvedProviderNotFatal ==
  (last.op = "Start" /\ UnresolvedProvider) =>
     /\ last.ret = "ok" /\ state = "running"
     /\ tags = options.Outbounds \o ProviderTagList(ResolvedProviderTags, outboundsCache)

\* The candidate list that matches the per-provider cache.
CandidateListNow ==
  LET l == options.Outbounds \o ProviderTagList(providerTags, outboundsCache)
  IN IF l = <<>> THEN <<Compatible>> ELSE l

\* No UpdateOutbounds call is in progress.
NoUpdateInProgress == \A p \in Range(ManagerProviders) : local[p] = NoLocal

\* C18: mutations of the candidate list, the candidate map and the cache
\* are serialized: once concurrent UpdateOutbounds calls have returned, the
\* list and the map hold the filtered outbounds of every provider as the
\* cache holds them.
C18_NoLostUpdate ==
  (state = "running" /\ NoUpdateInProgress) =>
     /\ tags = CandidateListNow
     /\ \A p \in Range(providerTags) : \A o \in Range(outboundsCache[p]) :
           outbounds[o.tag] = o

\* C19: a reload that fails at the file read or at the parse leaves the
\* provider's held outbound list exactly as it was; only a reload whose
\* read and parse both succeeded replaces it.
C19_FailedReloadKeepsList ==
  /\ [][(last'.op = "reloadFile" /\ last'.ret = "error") =>
          provOutbounds' = provOutbounds]_vars
  /\ [][\A p \in Range(ManagerProviders) :
          provOutbounds'[p] # provOutbounds[p] =>
             (last'.op = "reloadFile" /\ last'.arg = p /\ last'.ret = "ok")]_vars

\* C19 witness: a reload of "P" failed after an earlier reload had replaced
\* the list by <<p2>>.
C19_Witness ==
  /\ last.op = "reloadFile" /\ last.arg = "P" /\ last.ret = "error"
  /\ TagsOf(provOutbounds["P"]) = <<"p2">>


\* C20: under any interleaving of DialContext and SelectOutbound, once no
\* call is in progress every connection DialContext returned that is still
\* open was dialed through the active member: no dial that loaded the
\* previous member before a swap registers its connection after the swap's
\* interrupt.
C20_OpenConnsOnActiveMember ==
  (state = "running" /\ conns.dialing = {})
     => \A c \in conns.open : c.member = selected

====
